---- MODULE Spec2Model ----
(***************************************************************************)
(* The MCP servers of ai-hub-cloud: a tool registry filled by the mcp_tool *)
(* decorator at import time and the POST /mcp/call dispatch endpoint, in   *)
(* the five forms the repository holds it in.                              *)
(*                                                                         *)
(*   main   mcp-server/main.py:347 (the same text is in                    *)
(*          revolutionary_mcp_server.py:638)                               *)
(*   rev    mcp-server/revolutionary_complete.py:1380, the same text as    *)
(*          main over the tools of that file, with its own /sse            *)
(*   do     digitalocean-mcp-server/main.py:637                            *)
(*   gh     github-mcp-server/main.py:419, the same text as do over the    *)
(*          tools of that server                                           *)
(*   patch  mcp-server/json_fix_patch.py:14, the replacement of main.py's  *)
(*          mcp_call                                                       *)
(*   quick  scripts/quick_fix_mcp.py:26, the other replacement             *)
(*   fix    mcp-server/main.py:347 after scripts/fix_json_parsing.py has   *)
(*          replaced request.json() by parse_request_data(request)         *)
(*   aio    mcp-server/open_webui_mcp_complete.py:615, the aiohttp server  *)
(*   stdio  mcp-server/mcp_server.py:175, handle_call_tool of the server   *)
(*          that speaks MCP over stdio                                     *)
(***************************************************************************)
EXTENDS Integers, Sequences, FiniteSets, TLC

VARIABLES variant, phase, regIdx, tools_registry, req, redis_client,
          tool_usage, listing, sse, session, exec, auth, mw, conn, fs, valkey,
          stream

vars == <<variant, phase, regIdx, tools_registry, req, redis_client,
          tool_usage, listing, sse, session, exec, auth, mw, conn, fs, valkey,
          stream>>

\* the state of the MCP servers
serverVars == <<variant, phase, regIdx, tools_registry, req, redis_client,
                tool_usage, listing, sse, session>>

\* the state of the programs beside the MCP servers
others == <<exec, auth, mw, conn, fs, valkey, stream>>

(***************************************************************************)
(* Bounds                                                                  *)
(***************************************************************************)
\* the usage counter of the telemetry store is followed up to this value
MaxUsage == 2

\* the coroutines of the event loop that serve /mcp/call at the same time
Requests == {"r1", "r2"}

(***************************************************************************)
(* Python values                                                           *)
(***************************************************************************)
\* Python's None, where a tool name is expected
NONE == "None"
\* a local variable that has not been assigned yet
UNBOUND == "<unbound>"
\* a key that a dict does not hold
ABSENT == "<absent>"

Variants ==
    {"main", "rev", "do", "gh", "patch", "quick", "fix", "aio", "stdio"}
FastApiVariants == {"main", "rev", "do", "gh", "patch", "quick", "fix"}

\* the forms of the endpoint that look at the content type of the body
FormVariants == {"patch", "quick", "fix"}

\* the values a handler returns (the parsed body of the remote answer, or
\* the dict a file tool builds)
Values == {"hello", "world"}

(***************************************************************************)
(* The functions under @mcp_tool, in file order.  main.py:296-299 says     *)
(* that the full main.py carries the tools of revolutionary_complete.py    *)
(* after its own, so list_files is defined (and decorated) twice there.    *)
(***************************************************************************)
Def(id, name, params, required, remote) ==
    [id |-> id, name |-> name, params |-> params, required |-> required,
     remote |-> remote]

ModuleDefs(v) ==
    IF v \in {"main", "patch", "quick", "fix"}
    THEN << Def("main.py:88", "create_project", {"name", "description"},
                {"name"}, FALSE),
            Def("main.py:194", "list_files", {"project"}, {"project"}, FALSE),
            Def("revolutionary_complete.py:688", "list_files", {}, {}, TRUE) >>
    ELSE IF v = "do"
    THEN << Def("digitalocean-mcp-server/main.py:95", "list_apps",
                {"filter_name", "page", "per_page"}, {}, TRUE),
            Def("digitalocean-mcp-server/main.py:629", "delete_project",
                {"project_id"}, {"project_id"}, TRUE) >>
    ELSE IF v = "rev"
    THEN << Def("revolutionary_complete.py:682", "reset_all_memories", {}, {},
                TRUE),
            Def("revolutionary_complete.py:688", "list_files", {}, {}, TRUE) >>
    ELSE IF v = "gh"
    THEN << Def("github-mcp-server/main.py:158", "create_branch",
                {"owner", "repo", "branch", "from_branch"},
                {"owner", "repo", "branch"}, TRUE),
            Def("github-mcp-server/main.py:356", "push_multiple_files",
                {"owner", "repo", "files", "message", "branch"},
                {"owner", "repo", "files", "message"}, TRUE) >>
    ELSE << >>

\* the branches of the if/elif chain of mcp_call_tool, which
\* handle_call_tool has too
AioTools == {"create_general_dev_workspace", "chats_list"}

\* the names a caller may ask for
ToolNames(v) ==
    (IF v \in {"aio", "stdio"} THEN AioTools
     ELSE {ModuleDefs(v)[i].name : i \in 1..Len(ModuleDefs(v))})
    \cup {"does_not_exist"}

(***************************************************************************)
(* The registry: a Python dict keeps its keys in insertion order, and an   *)
(* assignment to a key it already holds keeps the key's place.             *)
(***************************************************************************)
RegistryNames(reg) == {reg[i].name : i \in 1..Len(reg)}

IndexOf(reg, name) == CHOOSE i \in 1..Len(reg) : reg[i].name = name

Lookup(reg, name) == reg[IndexOf(reg, name)]

\* tools_registry[func.__name__] = {...}
mcp_tool(reg, func) ==
    IF func.name \in RegistryNames(reg)
    THEN [reg EXCEPT ![IndexOf(reg, func.name)] = func]
    ELSE Append(reg, func)

(***************************************************************************)
(* Requests.  A body is JSON text or URL-encoded form text.  A JSON object *)
(* carries the tool name under at most one of tool / function / name, and  *)
(* the argument bag under the key the server reads (parameters; arguments  *)
(* for the aiohttp server).                                                *)
(***************************************************************************)
Kw(mapping, keys) == [mapping |-> mapping, keys |-> keys]

EmptyKw == Kw(TRUE, {})

\* a parameter that one tool of the server declares without a default
ReqKey(v) ==
    IF v = "do" THEN "project_id"
    ELSE IF v \in {"aio", "stdio"} THEN "project_name"
    ELSE "name"

\* the sets of keywords a caller sends
ArgSets(v) ==
    IF v = "gh"
    THEN {{"owner", "repo", "branch"}, {"owner", "repo", "files", "message"}}
    ELSE {{ReqKey(v)}}

\* {} , keywords, and a value that is no mapping (a JSON list or null, a
\* string)
KwChoices(v) ==
    {EmptyKw, Kw(FALSE, {})} \cup {Kw(TRUE, keys) : keys \in ArgSets(v)}

NameFields == {"tool", "function", "name"}

Body(ctype, shape, field, value, kw) ==
    [ctype |-> ctype, shape |-> shape, field |-> field, value |-> value,
     kw |-> kw]

NoBody == Body("none", "none", ABSENT, NONE, EmptyKw)

\* a form body carries the field parameters with the JSON text of kw.  The
\* servers that read the body with request.json() take form text as any
\* other text that is no JSON, so one form body stands for all there
FormBodies(v) ==
    IF v \in FormVariants
    THEN {Body("form", "object", f, n, k) :
            f \in NameFields, n \in ToolNames(v), k \in KwChoices(v)}
         \cup {Body("form", "object", ABSENT, NONE, k) : k \in KwChoices(v)}
    ELSE {Body("form", "object", "tool", "does_not_exist", EmptyKw)}

\* handle_call_tool gets the request parsed: params.name and
\* params.arguments, which is a mapping or None
StdioBodies ==
    {Body("json", "object", "name", n, k) :
        n \in ToolNames("stdio"), k \in {EmptyKw, Kw(TRUE, {ReqKey("stdio")})}}

Bodies(v) ==
    IF v = "stdio" THEN StdioBodies
    ELSE {Body("json", "garbage", ABSENT, NONE, EmptyKw),
          Body("json", "list", ABSENT, NONE, EmptyKw)}
         \cup {Body("json", "object", f, n, k) :
                 f \in NameFields, n \in ToolNames(v), k \in KwChoices(v)}
         \cup {Body("json", "object", ABSENT, NONE, k) : k \in KwChoices(v)}
         \cup FormBodies(v)

(***************************************************************************)
(* Exceptions and str(e)                                                   *)
(***************************************************************************)
Exc(type, status, text, arg) ==
    [type |-> type, status |-> status, text |-> text, arg |-> arg]

NoExc == Exc("none", 0, ABSENT, ABSENT)

JSONDecodeError == Exc("JSONDecodeError", 0, "Expecting value", "")
AttributeError == Exc("AttributeError", 0, "object has no attribute 'get'", "")
UnboundLocalError ==
    Exc("UnboundLocalError", 0,
        "cannot access local variable 'tool_name'", "")
ToolNotFound(name) == Exc("HTTPException", 404, "Tool not found", name)
NoToolName == Exc("HTTPException", 400, "No tool name provided", "")
TypeErrorMissing(fn) ==
    Exc("TypeError", 0, "missing 1 required positional argument", fn)
TypeErrorUnexpected(fn) ==
    Exc("TypeError", 0, "got an unexpected keyword argument", fn)
TypeErrorNotMapping(fn) ==
    Exc("TypeError", 0, "argument after ** must be a mapping", fn)

\* str(e): "<status_code>: <detail>" for an HTTPException, the message the
\* exception was built with for the others
Str(e) ==
    [code |-> IF e.type = "HTTPException" THEN e.status ELSE 0,
     text |-> e.text, arg |-> e.arg]

NoError == [code |-> -1, text |-> ABSENT, arg |-> ABSENT]

\* the empty string
IsEmptyStr(s) == s.code = 0 /\ s.text = ""

(***************************************************************************)
(* Parsing the body                                                        *)
(***************************************************************************)
Data(isdict, tool, function, name, par) ==
    [isdict |-> isdict, tool |-> tool, function |-> function, name |-> name,
     par |-> par]

\* {}
EmptyData == Data(TRUE, ABSENT, ABSENT, ABSENT, EmptyKw)

FieldOf(body, f) == IF body.field = f THEN body.value ELSE ABSENT

\* json.loads(body), where the text is JSON
JsonValue(body) ==
    Data(body.shape = "object", FieldOf(body, "tool"),
         FieldOf(body, "function"), FieldOf(body, "name"), body.kw)

\* json.loads accepts the text: form text and garbage are no JSON
IsJson(body) == body.ctype = "json" /\ body.shape # "garbage"

Parsed(data, exc) == [data |-> data, exc |-> exc]

\* data = await request.json()
request_json(body) ==
    IF IsJson(body) THEN Parsed(JsonValue(body), NoExc)
    ELSE Parsed(EmptyData, JSONDecodeError)

\* parse_qs of the form text, of which only tool and parameters are read
FormData(body) ==
    Data(TRUE, FieldOf(body, "tool"), ABSENT, ABSENT, body.kw)

\* the content-type switch of the two replacements of mcp_call
parse_by_content_type(body) ==
    IF body.ctype = "form" THEN Parsed(FormData(body), NoExc)
    ELSE IF IsJson(body) THEN Parsed(JsonValue(body), NoExc)
    ELSE Parsed(EmptyData, NoExc)

\* fix_json_parsing.py:18-54: dict(await request.form()) keeps every field
\* of the form as the string it was sent as, parameters too; another body
\* is read with request.json(), and what that raises is raised again
parse_request_data(body) ==
    IF body.ctype = "form"
    THEN Parsed(Data(TRUE, FieldOf(body, "tool"), FieldOf(body, "function"),
                     FieldOf(body, "name"), Kw(FALSE, {})), NoExc)
    ELSE request_json(body)

\* data.get(key)
Get(data, key) == IF data[key] = ABSENT THEN NONE ELSE data[key]

(***************************************************************************)
(* Extracting the tool name                                                *)
(***************************************************************************)
Named(tool_name, exc) == [tool_name |-> tool_name, exc |-> exc]

\* tool_name = data.get("tool")
tool_name_main(data) == Named(Get(data, "tool"), NoExc)

\* json_fix_patch.py:60-70
tool_name_patch(data) ==
    IF Get(data, "tool") # NONE THEN Named(Get(data, "tool"), NoExc)
    ELSE IF data.function # ABSENT THEN Named(data.function, NoExc)
    ELSE IF data.name # ABSENT THEN Named(data.name, NoExc)
    ELSE Named(NONE, NoToolName)

\* quick_fix_mcp.py:56-60
tool_name_quick(data) ==
    LET t == IF Get(data, "tool") # NONE THEN Get(data, "tool")
             ELSE IF Get(data, "function") # NONE THEN Get(data, "function")
             ELSE Get(data, "name")
    IN  IF t = NONE THEN Named(NONE, NoToolName) ELSE Named(t, NoExc)

\* tool_name = data.get("name")
tool_name_aio(data) == Named(Get(data, "name"), NoExc)

\* the value of tool_name before the try block is entered
InitialToolName(v) == IF v \in {"patch", "quick"} THEN NONE ELSE UNBOUND

(***************************************************************************)
(* The endpoint up to the call of the handler: parse, extract, resolve.    *)
(* tool_name is the local variable as the except clause finds it.          *)
(***************************************************************************)
Resolved(tool_name, parameters, def, exc) ==
    [tool_name |-> tool_name, parameters |-> parameters, def |-> def,
     exc |-> exc]

NoDef == Def("none", NONE, {}, {}, FALSE)

Resolve(v, body, reg) ==
    LET p == IF v \in {"patch", "quick"} THEN parse_by_content_type(body)
             ELSE IF v = "fix" THEN parse_request_data(body)
             ELSE request_json(body)
        n == IF v = "patch" THEN tool_name_patch(p.data)
             ELSE IF v = "quick" THEN tool_name_quick(p.data)
             ELSE tool_name_main(p.data)
    IN  IF p.exc # NoExc
        THEN Resolved(InitialToolName(v), EmptyKw, NoDef, p.exc)
        ELSE IF ~p.data.isdict
        THEN Resolved(InitialToolName(v), EmptyKw, NoDef, AttributeError)
        ELSE IF n.exc # NoExc
        THEN Resolved(n.tool_name, p.data.par, NoDef, n.exc)
        ELSE IF n.tool_name \notin RegistryNames(reg)
        THEN Resolved(n.tool_name, p.data.par, NoDef,
                      ToolNotFound(n.tool_name))
        ELSE Resolved(n.tool_name, p.data.par, Lookup(reg, n.tool_name),
                      NoExc)

\* tool["function"](**parameters): what Python raises before the body runs
Bind(def, parameters) ==
    IF ~parameters.mapping THEN TypeErrorNotMapping(def.name)
    ELSE IF ~(parameters.keys \subseteq def.params)
    THEN TypeErrorUnexpected(def.name)
    ELSE IF ~(def.required \subseteq parameters.keys)
    THEN TypeErrorMissing(def.name)
    ELSE NoExc

(***************************************************************************)
(* Responses                                                               *)
(***************************************************************************)
Resp(shape, http, status, tool, result, error) ==
    [shape |-> shape, http |-> http, status |-> status, tool |-> tool,
     result |-> result, error |-> error, detail |-> ABSENT]

NoResp == Resp("none", 0, ABSENT, ABSENT, ABSENT, NoError)

\* an envelope whose result is not the value of the handler
SuccessEnvelopeNoResult(tool_name, result) ==
    Resp("envelope", 200, "success", tool_name, tool_name, NoError)

\* return {"status": "success", "tool": tool_name, "result": result}
SuccessEnvelope(tool_name, result) ==
    Resp("envelope", 200, "success", tool_name, result, NoError)

\* return {"status": "error", "tool": ..., "error": str(e)}
ErrorEnvelope(tool, e) ==
    Resp("envelope", 200, "error", tool, ABSENT, Str(e))

\* json_fix_patch.py:97-102: the envelope also carries "detail", the message
\* with the traceback
ErrorEnvelopeWithDetail(tool, e) ==
    [ErrorEnvelope(tool, e) EXCEPT !.detail = "traceback"]

\* an exception that leaves the endpoint: the server answers 500 with the
\* text "Internal Server Error"
Unhandled == Resp("unhandled", 500, ABSENT, ABSENT, ABSENT, NoError)

\* an HTTPException that leaves the endpoint: FastAPI answers with its
\* status code and {"detail": detail}
HttpExceptionResponse(e) ==
    Resp("http_exception", e.status, ABSENT, ABSENT, ABSENT,
         [code |-> 0, text |-> e.text, arg |-> e.arg])

\* the except clauses of the four FastAPI endpoints
ExceptResponse(v, tool_name, e) ==
    IF v \in {"main", "rev", "fix"}
    THEN IF tool_name = UNBOUND THEN Unhandled
         ELSE ErrorEnvelope(tool_name, e)
    ELSE IF v \in {"do", "gh"}
    THEN ErrorEnvelope(IF tool_name = UNBOUND THEN "unknown" ELSE tool_name, e)
    ELSE IF v = "patch"
    THEN IF e.type = "HTTPException" THEN HttpExceptionResponse(e)
         ELSE ErrorEnvelopeWithDetail(tool_name, e)
    ELSE ErrorEnvelope(tool_name, e)

\* web.json_response({"result": result})
AioResult(result) == Resp("aio_result", 200, ABSENT, ABSENT, result, NoError)

\* web.json_response({"error": str(e)}, status=400)
AioError(e) == Resp("aio_error", 400, ABSENT, ABSENT, ABSENT, Str(e))

(***************************************************************************)
(* What a handler can do once its body runs                                *)
(***************************************************************************)
\* the statuses of the remote API that raise HTTPException
UpstreamStatuses == {404, 500}

\* raise HTTPException(status_code=response.status_code, detail=response.text)
UpstreamError(status) == Exc("HTTPException", status, "response.text", "")

\* httpx.ConnectError("All connection attempts failed")
ConnectError == Exc("ConnectError", 0, "All connection attempts failed", "")

\* httpx.ReadTimeout: httpx builds it with the message of the timeout of the
\* transport, which has none
ReadTimeout == Exc("ReadTimeout", 0, "", "")

\* mkdir or open of a file tool
OSError == Exc("OSError", 0, "[Errno 13] Permission denied", "")

\* what comes back for one request to the remote API: a response with a
\* status and a body, no response within the timeout of the client, or no
\* connection
Answer(kind, status, body) == [kind |-> kind, status |-> status, body |-> body]

NoAnswer == Answer("none", 0, ABSENT)

RemoteAnswers ==
    {Answer("response", 200, v) : v \in Values}
    \cup {Answer("response", st, "response.text") : st \in UpstreamStatuses}
    \cup {Answer("timeout", 0, ABSENT), Answer("refused", 0, ABSENT)}

\* a function either raises exc or returns value
Outcome(exc, value) == [exc |-> exc, value |-> value]

\* what client.get / client.post of httpx raise when no response comes
TransportError(a) == IF a.kind = "timeout" THEN ReadTimeout ELSE ConnectError

\* call_openwebui_api (main.py:41-63), and with the same text
\* github_api_call (github-mcp-server/main.py:48-74)
call_openwebui_api(a) ==
    IF a.kind # "response" THEN Outcome(TransportError(a), ABSENT)
    ELSE IF a.status >= 400 THEN Outcome(UpstreamError(a.status), ABSENT)
    ELSE Outcome(NoExc, a.body)

\* do_api_call (digitalocean-mcp-server/main.py:48-77)
do_api_call(a) ==
    IF a.kind # "response" THEN Outcome(TransportError(a), ABSENT)
    ELSE IF a.status >= 400 THEN Outcome(UpstreamError(a.status), ABSENT)
    ELSE IF a.status = 204 THEN Outcome(NoExc, "Operation completed")
    ELSE Outcome(NoExc, a.body)

\* the helper through which the function of a remote tool sends its request
Adapter(def, a) ==
    IF def.id \in {"digitalocean-mcp-server/main.py:95",
                   "digitalocean-mcp-server/main.py:629"}
    THEN do_api_call(a)
    ELSE call_openwebui_api(a)

\* the files in the list that push_multiple_files is called with
PushedFiles == 1

\* the requests the function of a remote tool sends when none of them
\* fails: create_branch reads the ref of the source branch and posts the new
\* ref; push_multiple_files reads the ref and the commit, posts a blob for
\* each file, posts the tree and the commit and patches the ref
RequestsOf(def) ==
    IF def.name = "create_branch" THEN 2
    ELSE IF def.name = "push_multiple_files" THEN 5 + PushedFiles
    ELSE 1

\* push_multiple_files runs in try / except Exception and returns a dict
\* with the message of the exception
Catches(def) == def.name = "push_multiple_files"

PushFailed == "error: Failed to push files"
PushSucceeded == "success: True, files_pushed"

\* the function is not at its end: it sends its next request
PENDING == "<pending>"

\* what the function of a remote tool does with the answer a to its n-th
\* request
ToolOutcome(def, a, n) ==
    LET o == Adapter(def, a)
    IN  IF o.exc # NoExc
        THEN IF Catches(def) THEN Outcome(NoExc, PushFailed) ELSE o
        ELSE IF n < RequestsOf(def) THEN Outcome(NoExc, PENDING)
        ELSE IF def.name = "push_multiple_files"
        THEN Outcome(NoExc, PushSucceeded)
        ELSE o

\* the values the function of a tool can return
HandlerResults == Values \cup {PushFailed, PushSucceeded}

\* the exceptions with which the function of a tool can end
HandlerFailures(def) ==
    IF def.remote
    THEN {ToolOutcome(def, a, 1).exc : a \in RemoteAnswers} \ {NoExc}
    ELSE {OSError}

\* the answers of the remote API that make the function end with e
Causes(def, e) ==
    IF def.remote
    THEN {a \in RemoteAnswers : ToolOutcome(def, a, 1).exc = e}
    ELSE {NoAnswer}

(***************************************************************************)
(* The coroutine of one request                                            *)
(***************************************************************************)
\* invocations counts the executions of the statement that calls the
\* function of the tool (it may fail before the function is entered),
\* bodyRuns the times the body of the function started to run, outbound the
\* HTTP requests sent to the remote API; exc is the exception that ended the
\* try block and returned the value the handler returned; answer is the
\* answer to the last request sent, telemetry whether the usage of the tool
\* was recorded ("ok", "failed", or "none" where nothing was tried), client
\* the HTTP client the remote call goes through ("own": one made for this
\* call, "session": the one of the process)
IdleReq ==
    [pc |-> "idle", body |-> NoBody, tool_name |-> UNBOUND,
     parameters |-> EmptyKw, def |-> NoDef, invocations |-> 0,
     bodyRuns |-> 0, outbound |-> 0, exc |-> NoExc, returned |-> ABSENT,
     resp |-> NoResp, answer |-> NoAnswer, telemetry |-> "none",
     client |-> "none"]

\* variables that all coroutines share, as module-level variables would be
GlobalFrame(r) == req["r1"]

\* the local variables of the coroutine that serves r
Frame(r) == req[r]

UsageNames == AioTools \cup {"does_not_exist"}

\* the response of GET /mcp/tools that is being written, if any
Listing(state, tools, total) == [state |-> state, tools |-> tools, total |-> total]

NoListing == Listing("none", << >>, 0)

\* the body of list_tools: one entry per key of the registry, and the
\* length of that list
list_tools(reg) ==
    Listing("done", [i \in 1..Len(reg) |-> reg[i].name], Len(reg))

(***************************************************************************)
(* droplet-executor/executor.py                                            *)
(***************************************************************************)
\* API_TOKEN = os.getenv("EXECUTOR_API_TOKEN", "your-secret-token-here")
API_TOKEN == "your-secret-token-here"

\* the callers of POST /execute
Callers == {"e1", "e2"}

\* what POST /execute answers: the HTTP status and, for a CommandResponse,
\* its return_code and stderr
ExecResp(http, return_code, stderr) ==
    [http |-> http, return_code |-> return_code, stderr |-> stderr]

\* CommandResponse(stdout=..., stderr=..., return_code=..., success=...)
CommandResponse(stderr, return_code) == ExecResp(200, return_code, stderr)

\* one call of POST /execute: valid is whether the body is a CommandRequest,
\* process the subprocess the call started, if any
IdleExec ==
    [pc |-> "idle", token |-> NONE, valid |-> TRUE, cwd |-> NONE,
     process |-> "none", resp |-> ExecResp(0, 0, ABSENT)]

(***************************************************************************)
(* mcp-server/auth_handler.py                                              *)
(***************************************************************************)
\* the seconds of datetime.utcnow() that are followed
MaxClock == 2

\* at most this many tokens are issued
MaxIssued == 2

\* the data a token is made for: a client, as generate_client_token builds
\* it, and a dict without client_id
TokenData == {"client_a", "no_client_id"}

has_client_id(data) == data # "no_client_id"

\* ACCESS_TOKEN_EXPIRE_MINUTES, and the timedelta(days=30) of
\* generate_client_token, in units of the clock
ShortLife == 1
LongLife == 3

\* jwt.encode(to_encode, SECRET_KEY, algorithm=ALGORITHM): the string is a
\* function of the data, of iat and exp in whole seconds, and of the key;
\* signed is whether the signature is the one SECRET_KEY gives
Jwt(data, iat, exp, signed) ==
    [data |-> data, iat |-> iat, exp |-> exp, signed |-> signed]

\* a token that was not signed with SECRET_KEY
ForgedToken == Jwt("client_a", 0, LongLife, FALSE)

\* the tokens of the model: what this process can issue, and the forged one
AllTokens ==
    {Jwt(d, i, i + l, TRUE) :
        d \in TokenData, i \in 0..MaxClock, l \in {ShortLife, LongLife}}
        \cup {ForgedToken}

\* f"ai-hub:token:{encoded_jwt[:20]}": the first 20 characters of a JWT lie
\* within the base64 of its header {"alg": "HS256", "typ": "JWT"} (36
\* characters), which is the same for every token
TokenKey(token) == "ai-hub:token:eyJhbGciOiJIUzI1NiIs"

\* a key of the store holds the token setex stored under it and the time
\* until when the store keeps it; this is a key that holds nothing
NoRecord == [full_token |-> Jwt(NONE, 0, 0, FALSE), until |-> 0]

\* r.get(key): None for a key that was never set, was deleted or has expired
RedisGet(store, key, now) ==
    IF store[key] = NoRecord \/ now >= store[key].until THEN NoRecord
    ELSE store[key]

\* what verify_token returns: the payload, or None
Payload(token) == [some |-> TRUE, data |-> token.data, iat |-> token.iat,
                   exp |-> token.exp]

NoPayload == [some |-> FALSE, data |-> NONE, iat |-> 0, exp |-> 0]

\* jwt.decode raises JWTError for a bad signature and for exp in the past
JwtDecodes(token, now) == token.signed /\ now <= token.exp

\* AuthHandler.verify_token
verify_token(token, store, now) ==
    IF ~JwtDecodes(token, now) THEN NoPayload
    ELSE LET stored_data == RedisGet(store, TokenKey(token), now)
         IN  IF stored_data = NoRecord THEN NoPayload
             ELSE IF stored_data.full_token # token THEN NoPayload
             ELSE Payload(token)

\* the Authorization header of a request: absent (headers.get gives None),
\* empty, "Bearer <token>", or of another scheme
Header(kind, token) == [kind |-> kind, token |-> token]

\* not auth_header
Falsy(header) == header.kind \in {"absent", "empty"}

\* AuthHandler.validate_request
validate_request(header, store, now) ==
    IF Falsy(header) \/ header.kind # "bearer" THEN NoPayload
    ELSE verify_token(header.token, store, now)

IsLocal(remote) == remote = "127.0.0.1" \/ remote = "::1"

\* the requests that go through authenticated_handler
MwCalls == {"m1"}

\* one request: invoked is whether handler(request) was called, result
\* what authenticated_handler gave back, accepted what validate_request
\* returned when it was asked
IdleMw ==
    [pc |-> "idle", header |-> Header("absent", ForgedToken),
     remote |-> "127.0.0.1", invoked |-> FALSE, result |-> ABSENT,
     accepted |-> FALSE]

(***************************************************************************)
(* get_redis of mcp-server/mcp_server.py and of AuthHandler                *)
(***************************************************************************)
\* the coroutines that call get_redis: tool calls handled at the same
\* time. In the record of a task, made is the client it got from
\* redis.from_url, r the one get_redis returned to it, logged whether its
\* setex was sent; clients are numbered in the order they are made, 0 is
\* None
Tasks == {"t1", "t2", "t3"}

(***************************************************************************)
(* create_project and write_code of mcp-server/main.py                     *)
(***************************************************************************)
\* the tool calls that write into one project at the same time
Writers == {"w1", "w2"}

\* project.json on disk: absent, a JSON text whose "files" list holds the
\* given names, or empty (opened for writing and not written yet)
ProjectJson(state, files) == [state |-> state, files |-> files]

\* one call of write_code: metadata is the copy of the file list it read
IdleWriter == [pc |-> "idle", filename |-> NONE, metadata |-> << >>]

\* metadata["files"] = [f for f in ... if f["name"] != filename];
\* metadata["files"].append(file_info)
UpdateFiles(files, filename) ==
    Append(SelectSeq(files, LAMBDA f : f # filename), filename)

(***************************************************************************)
(* get_redis_client of mcp-server/open_webui_mcp_complete.py               *)
(***************************************************************************)
\* a strategy that is content with the ping
StrategyPings(k, pings, test_ops) == k \in pings

\* the try block of strategy k runs to its return: the ping of the client
\* succeeds (pings holds the strategies for which it would) and, in
\* strategy 1, so do the set and get of the test key that follow it
StrategySucceeds(k, pings, test_ops) == k \in pings /\ (k = 1 => test_ops)

\* the strategies are tried from 1 to 5 up to the first that succeeds; a
\* client is numbered by the strategy that made it, 0 is None
FirstSuccess(pings, test_ops) ==
    LET S == {k \in 1..5 : StrategySucceeds(k, pings, test_ops)}
    IN  IF S = {} THEN 0 ELSE CHOOSE k \in S : \A j \in S : k <= j

\* the clients connected to GET /sse
Conns == {"c1", "c2"}

\* events is what the generator of the connection has yielded so far; it
\* is kept when the client has gone, until the client connects again
Closed == [pc |-> "closed", events |-> << >>]

\* the keep-alive events of a connection that are followed
MaxPings == 2

\* an event of the stream: its type and, for a tools event, the names of the
\* tools it lists
Ev(type, names) == [type |-> type, names |-> names]

\* the generator the server has: main.py:313-331 (also after the
\* replacements of mcp_call), digitalocean-mcp-server/main.py:731-748 (the
\* same text in github-mcp-server/main.py), revolutionary_complete.py:1481
SseFlavour(v) ==
    IF v \in {"main", "patch", "quick", "fix"} THEN "main"
    ELSE IF v \in {"do", "gh"} THEN "do"
    ELSE IF v = "rev" THEN "rev"
    ELSE "none"

\* chunk_size = 50
ChunkSize == 50

\* the registry of revolutionary_complete.py holds more than 200 tools;
\* streams of up to this many are followed
MaxTools == 120

\* (len(tools_data) + chunk_size - 1) // chunk_size
NumChunks(n) == (n + ChunkSize - 1) \div ChunkSize

\* a slice that takes one element more: tools_data[i:i + chunk_size + 1]
ChunkAndNext(names, k) ==
    SubSeq(names, (k - 1) * ChunkSize + 1,
           IF k * ChunkSize + 1 < Len(names) THEN k * ChunkSize + 1
           ELSE Len(names))

\* tools_data[i:i + chunk_size] of the k-th round of the loop
Chunk(names, k) ==
    SubSeq(names, (k - 1) * ChunkSize + 1,
           IF k * ChunkSize < Len(names) THEN k * ChunkSize ELSE Len(names))

\* what the generator yields before it enters its keep-alive loop (the
\* lines that start with a colon are comments of the stream, not events)
SseScript(v, reg) ==
    LET names == [i \in 1..Len(reg) |-> reg[i].name]
    IN  IF SseFlavour(v) = "main" THEN << Ev("tools", names) >>
        ELSE IF SseFlavour(v) = "do"
        THEN << Ev("connection", << >>), Ev("tools", names) >>
        ELSE << Ev("connection", << >>) >>
             \o [k \in 1..NumChunks(Len(names)) |-> Ev("tools", Chunk(names, k))]
             \o << Ev("tools_complete", << >>) >>

Pings(events) == Cardinality({i \in 1..Len(events) : events[i].type = "ping"})

Init ==
    /\ variant \in Variants
    /\ phase = "startup"
    /\ regIdx = 0
    /\ tools_registry = << >>
    /\ req = [r \in Requests |-> IdleReq]
    /\ redis_client = "None"
    /\ tool_usage = [n \in UsageNames |-> 0]
    /\ listing = NoListing
    /\ sse = [c \in Conns |-> Closed]
    /\ session = NONE
    /\ exec = [e \in Callers |-> IdleExec]
    /\ auth = [clock |-> 0, store |-> [k \in {TokenKey(t) : t \in AllTokens} |-> NoRecord],
               clients |-> {}, issued |-> {}, revoked |-> {}]
    /\ mw = [m \in MwCalls |-> IdleMw]
    /\ conn = [redis_client |-> 0, created |-> 0,
               task |-> [t \in Tasks |-> [pc |-> "idle", made |-> 0, r |-> 0,
                                          logged |-> FALSE]]]
    /\ fs = [project_json |-> ProjectJson("absent", << >>),
             completed |-> {}, writer |-> [w \in Writers |-> IdleWriter]]
    /\ valkey = [redis_client |-> 0, op |-> "none", pings |-> {},
                 test_ops |-> FALSE, before |-> 0, tried |-> {},
                 returned |-> 0, redis_status |-> "none"]
    /\ stream = [pc |-> "closed", tools_data |-> << >>, events |-> << >>]

\* one @mcp_tool line of the module, executed at import
Register ==
    /\ phase = "startup"
    /\ regIdx < Len(ModuleDefs(variant))
    /\ tools_registry' = mcp_tool(tools_registry, ModuleDefs(variant)[regIdx + 1])
    /\ regIdx' = regIdx + 1
    /\ UNCHANGED <<others, variant, phase, req, redis_client, tool_usage, listing, sse,
                   session>>

\* a listener that is started before the module has run to its end
StartServingEarly ==
    /\ phase = "startup"
    /\ phase' = "serving"
    /\ redis_client' \in IF variant = "aio" THEN {"None", "client"} ELSE {"None"}
    /\ UNCHANGED <<others, variant, regIdx, tools_registry, req, tool_usage, listing,
                   sse, session>>

\* uvicorn.run(app, ...) at the end of the module; main() of the aiohttp
\* server, which first tries to connect to the telemetry store
StartServing ==
    /\ phase = "startup"
    /\ regIdx = Len(ModuleDefs(variant))
    /\ phase' = "serving"
    /\ redis_client' \in IF variant = "aio" THEN {"None", "client"} ELSE {"None"}
    /\ UNCHANGED <<others, variant, regIdx, tools_registry, req, tool_usage, listing,
                   sse, session>>

\* a POST /mcp/call arrives; its coroutine starts and waits for the body
Receive(r) ==
    /\ phase = "serving"
    /\ req[r].pc = "idle"
    /\ \E body \in Bodies(variant) :
          req' = [req EXCEPT ![r] = [IdleReq EXCEPT !.pc = "read", !.body = body]]
    /\ UNCHANGED <<others, variant, phase, regIdx, tools_registry, redis_client, tool_usage,
                   listing, sse, session>>

\* mcp_call from the body to the call of the handler, where it waits for
\* the handler, or to the response
Dispatch(r) ==
    /\ variant \in FastApiVariants
    /\ req[r].pc = "read"
    /\ LET res == Resolve(variant, req[r].body, tools_registry)
           b == Bind(res.def, res.parameters)
           f == [req[r] EXCEPT !.tool_name = res.tool_name,
                               !.parameters = res.parameters,
                               !.def = res.def]
       IN  req' = [req EXCEPT ![r] =
              IF res.exc # NoExc
              THEN [f EXCEPT !.pc = "done", !.exc = res.exc,
                      !.resp = ExceptResponse(variant, res.tool_name, res.exc)]
              ELSE IF b # NoExc
              THEN [f EXCEPT !.pc = "done", !.invocations = @ + 1, !.exc = b,
                      !.resp = ExceptResponse(variant, res.tool_name, b)]
              ELSE [f EXCEPT !.pc = "call", !.invocations = @ + 1,
                      !.bodyRuns = @ + 1,
                      !.outbound = IF res.def.remote THEN @ + 1 ELSE @,
                      !.client = IF res.def.remote THEN "own" ELSE @]]
    /\ UNCHANGED <<others, variant, phase, regIdx, tools_registry, redis_client, tool_usage,
                   listing, sse, session>>

\* the handler returns a value: what its helper made of the answer of the
\* remote API, or the dict a file tool builds
HandlerReturn(r) ==
    /\ variant \in FastApiVariants
    /\ req[r].pc = "call"
    /\ \E a \in (IF req[r].def.remote THEN RemoteAnswers ELSE {NoAnswer}) :
       \E result \in HandlerResults :
          /\ IF req[r].def.remote
             THEN ToolOutcome(req[r].def, a, req[r].outbound)
                    = Outcome(NoExc, result)
             ELSE result \in Values
          /\ req' = [req EXCEPT ![r] =
                    [@ EXCEPT !.pc = "done", !.returned = result, !.answer = a,
                              !.resp = SuccessEnvelope(Frame(r).tool_name, result)]]
    /\ UNCHANGED <<others, variant, phase, regIdx, tools_registry, redis_client, tool_usage,
                   listing, sse, session>>

\* the function of the tool got the answer to a request and sends its next
HandlerContinue(r) ==
    /\ variant \in FastApiVariants
    /\ req[r].pc = "call"
    /\ req[r].def.remote
    /\ \E a \in RemoteAnswers :
          /\ ToolOutcome(req[r].def, a, req[r].outbound).value = PENDING
          /\ req' = [req EXCEPT ![r] =
                    [@ EXCEPT !.answer = a, !.outbound = @ + 1]]
    /\ UNCHANGED <<others, variant, phase, regIdx, tools_registry, redis_client, tool_usage,
                   listing, sse, session>>

\* a handler that is called again when it has failed
HandlerRaiseRetry(r) ==
    /\ variant \in FastApiVariants
    /\ req[r].pc = "call"
    /\ \E e \in HandlerFailures(req[r].def) :
          req' = [req EXCEPT ![r] =
                    [@ EXCEPT !.exc = e, !.invocations = @ + 1,
                              !.bodyRuns = @ + 1]]
    /\ UNCHANGED <<others, variant, phase, regIdx, tools_registry, redis_client, tool_usage,
                   listing, sse, session>>

\* the handler raises: the except clause builds the response, the handler
\* is not called again
HandlerRaise(r) ==
    /\ variant \in FastApiVariants
    /\ req[r].pc = "call"
    /\ \E e \in HandlerFailures(req[r].def) :
       \E a \in Causes(req[r].def, e) :
          req' = [req EXCEPT ![r] =
                    [@ EXCEPT !.pc = "done", !.exc = e, !.answer = a,
                              !.resp = ExceptResponse(variant, Frame(r).tool_name, e)]]
    /\ UNCHANGED <<others, variant, phase, regIdx, tools_registry, redis_client, tool_usage,
                   listing, sse, session>>

\* the response is written to the client and the coroutine ends
Deliver(r) ==
    /\ req[r].pc = "done"
    /\ req' = [req EXCEPT ![r] = IdleReq]
    /\ UNCHANGED <<others, variant, phase, regIdx, tools_registry, redis_client, tool_usage,
                   listing, sse, session>>

(***************************************************************************)
(* The aiohttp server: mcp_call_tool                                       *)
(***************************************************************************)
\* result = {"error": f"Tool not implemented: {tool_name}"}
NotImplementedResult == "error: Tool not implemented"

\* what the workspace and list functions return when api_request reports
\* success: False (api_request catches every exception of the remote call)
FailedResult == "success: False"

\* a store that writes the first count in place of adding to the field
hsetOne(usage, name) == [usage EXCEPT ![name] = 1]

\* redis.hincrby("ai-hub:tool_usage", tool_name, 1)
hincrby(usage, name) == [usage EXCEPT ![name] = @ + 1]

\* mcp_call_tool from the body to the call of the function of the tool, or
\* to the response; connected is whether get_redis_client finds the store
\* when no client is cached, logged whether hincrby succeeds
AioDispatchWith(r, connected, logged) ==
    /\ variant = "aio"
    /\ req[r].pc = "read"
    /\ LET p == request_json(req[r].body)
           n == tool_name_aio(p.data)
           parsed == p.exc = NoExc /\ p.data.isdict
           redis == IF redis_client = "None" /\ connected THEN "client"
                    ELSE redis_client
           counts == /\ parsed
                     /\ redis = "client"
                     /\ logged
                     /\ n.tool_name \in UsageNames
           f == [req[r] EXCEPT !.tool_name = n.tool_name,
                               !.parameters = p.data.par,
                               !.telemetry = IF counts THEN "ok" ELSE "failed"]
           calls == /\ parsed
                    /\ n.tool_name \in AioTools
                    /\ n.tool_name = "create_general_dev_workspace"
                          => p.data.par.mapping
       IN  /\ counts => tool_usage[n.tool_name] < MaxUsage
           /\ session' = IF calls THEN "ClientSession" ELSE session
           /\ redis_client' = IF p.exc = NoExc /\ p.data.isdict THEN redis
                              ELSE redis_client
           /\ tool_usage' = IF counts THEN hincrby(tool_usage, n.tool_name)
                            ELSE tool_usage
           /\ req' = [req EXCEPT ![r] =
                IF p.exc # NoExc
                THEN [@ EXCEPT !.pc = "done", !.exc = p.exc,
                               !.resp = AioError(p.exc)]
                ELSE IF ~p.data.isdict
                THEN [@ EXCEPT !.pc = "done", !.exc = AttributeError,
                               !.resp = AioError(AttributeError)]
                ELSE IF n.tool_name \notin AioTools
                THEN [f EXCEPT !.pc = "done",
                               !.resp = AioResult(NotImplementedResult)]
                ELSE IF n.tool_name = "create_general_dev_workspace"
                        /\ ~p.data.par.mapping
                THEN [f EXCEPT !.pc = "done", !.invocations = @ + 1,
                               !.exc = AttributeError,
                               !.resp = AioError(AttributeError)]
                ELSE [f EXCEPT !.pc = "call", !.invocations = @ + 1,
                               !.bodyRuns = @ + 1, !.outbound = @ + 1,
                               !.client = "session"]]
    /\ UNCHANGED <<others, variant, phase, regIdx, tools_registry, listing, sse>>

AioDispatch(r) ==
    \E connected, logged \in BOOLEAN : AioDispatchWith(r, connected, logged)

\* api_request never raises: it returns {"status", "data", "success"}, with
\* status 500 and success False for an exception of the request
ApiSuccess(a) == a.kind = "response" /\ a.status < 400

\* the dict of api_request as text
ApiResult(a) ==
    IF a.kind # "response" THEN "status: 500, data: {error}, success: False"
    ELSE IF a.status = 404 THEN "status: 404, data: response.text, success: False"
    ELSE IF a.status = 500 THEN "status: 500, data: response.text, success: False"
    ELSE IF a.body = "hello" THEN "status: 200, data: hello, success: True"
    ELSE "status: 200, data: world, success: True"

\* what the function of the tool makes of the answer: the workspace
\* functions return a message and success, chats_list the dict of api_request
aio_tool_result(tool_name, a) ==
    IF tool_name = "chats_list" THEN ApiResult(a)
    ELSE IF ApiSuccess(a) THEN "Workspace created, success: True"
    ELSE FailedResult

\* the function of the tool returns
AioReturn(r) ==
    /\ variant = "aio"
    /\ req[r].pc = "call"
    /\ \E a \in RemoteAnswers :
          req' = [req EXCEPT ![r] =
                    [@ EXCEPT !.pc = "done", !.answer = a,
                              !.returned = aio_tool_result(req[r].tool_name, a),
                              !.resp = AioResult(aio_tool_result(req[r].tool_name, a))]]
    /\ UNCHANGED <<others, variant, phase, regIdx, tools_registry, redis_client, tool_usage,
                   listing, sse, session>>

(***************************************************************************)
(* The stdio server: handle_call_tool                                      *)
(***************************************************************************)
\* what redis raises when the store cannot be reached
RedisConnectionError ==
    Exc("ConnectionError", 0, "Error connecting to redis", "")

\* CallToolResult(content=[TextContent(type="text", text=...)])
CallToolResult(text) ==
    Resp("call_tool_result", 0, ABSENT, ABSENT, text, NoError)

\* an exception that leaves handle_call_tool
StdioRaised(e) == Resp("raised", 0, ABSENT, ABSENT, ABSENT, Str(e))

NotImplementedYet == "Tool not implemented yet"

\* create_general_dev_workspace (mcp_server.py:424-447) and chats_list
\* (mcp_server.py:583-603) turn the dict of api_request into a text
stdio_tool_result(tool_name, a) ==
    IF tool_name = "chats_list"
    THEN IF ~ApiSuccess(a) THEN "Failed to get chats"
         ELSE IF a.body = "hello" THEN "Recent Chats: hello"
         ELSE "Recent Chats: world"
    ELSE IF ApiSuccess(a) THEN "Developer workspace created!"
    ELSE "Failed to create workspace"

\* handle_call_tool up to the request of api_request, or to its end.
\* callLogged is whether the setex of handle_call_tool (line 183) succeeds,
\* requestLogged whether the setex of api_request (line 57) does
StdioDispatchWith(r, callLogged, requestLogged) ==
    /\ variant = "stdio"
    /\ req[r].pc = "read"
    /\ LET name == req[r].body.value
           f == [req[r] EXCEPT !.tool_name = name,
                               !.parameters = req[r].body.kw]
           known == name \in AioTools
       IN  /\ redis_client' \in
                 IF callLogged THEN {"client"} ELSE {redis_client, "client"}
           /\ session' = IF callLogged /\ known THEN "ClientSession"
                         ELSE session
           /\ req' = [req EXCEPT ![r] =
                IF ~callLogged
                THEN [f EXCEPT !.pc = "done", !.telemetry = "failed",
                               !.exc = RedisConnectionError,
                               !.resp = StdioRaised(RedisConnectionError)]
                ELSE IF ~known
                THEN [f EXCEPT !.pc = "done", !.telemetry = "ok",
                               !.resp = CallToolResult(NotImplementedYet)]
                ELSE IF ~requestLogged
                THEN [f EXCEPT !.pc = "done", !.telemetry = "failed",
                               !.invocations = @ + 1, !.bodyRuns = @ + 1,
                               !.client = "session",
                               !.exc = RedisConnectionError,
                               !.resp = StdioRaised(RedisConnectionError)]
                ELSE [f EXCEPT !.pc = "call", !.telemetry = "ok",
                               !.invocations = @ + 1, !.bodyRuns = @ + 1,
                               !.outbound = @ + 1, !.client = "session"]]
    /\ UNCHANGED <<others, variant, phase, regIdx, tools_registry, tool_usage, listing,
                   sse>>

StdioDispatch(r) ==
    \E callLogged, requestLogged \in BOOLEAN :
        StdioDispatchWith(r, callLogged, requestLogged)

\* api_request returns and the function of the tool builds its text
StdioReturn(r) ==
    /\ variant = "stdio"
    /\ req[r].pc = "call"
    /\ \E a \in RemoteAnswers :
          req' = [req EXCEPT ![r] =
                    [@ EXCEPT !.pc = "done", !.answer = a,
                              !.returned = stdio_tool_result(req[r].tool_name, a),
                              !.resp = CallToolResult(
                                  stdio_tool_result(req[r].tool_name, a))]]
    /\ UNCHANGED <<others, variant, phase, regIdx, tools_registry, redis_client,
                   tool_usage, listing, sse, session>>

(***************************************************************************)
(* GET /sse                                                                *)
(***************************************************************************)
\* a client connects: the StreamingResponse starts to run the generator
SseConnect(c) ==
    /\ phase = "serving"
    /\ SseFlavour(variant) # "none"
    /\ sse[c].pc = "closed"
    /\ sse' = [sse EXCEPT ![c] = [pc |-> "open", events |-> << >>]]
    /\ UNCHANGED <<others, variant, phase, regIdx, tools_registry, req, redis_client,
                   tool_usage, listing, session>>

\* the generator yields its next event before the keep-alive loop
SseYield(c) ==
    /\ sse[c].pc = "open"
    /\ Len(sse[c].events) < Len(SseScript(variant, tools_registry))
    /\ sse' = [sse EXCEPT ![c].events =
                 Append(@, SseScript(variant, tools_registry)[Len(@) + 1])]
    /\ UNCHANGED <<others, variant, phase, regIdx, tools_registry, req, redis_client,
                   tool_usage, listing, session>>

\* asyncio.sleep(30) is over: the keep-alive loop yields a ping
SsePing(c) ==
    /\ sse[c].pc = "open"
    /\ Len(sse[c].events) >= Len(SseScript(variant, tools_registry))
    /\ Pings(sse[c].events) < MaxPings
    /\ sse' = [sse EXCEPT ![c].events = Append(@, Ev("ping", << >>))]
    /\ UNCHANGED <<others, variant, phase, regIdx, tools_registry, req, redis_client,
                   tool_usage, listing, session>>

\* the client goes away and the generator is closed
SseDisconnect(c) ==
    /\ sse[c].pc = "open"
    /\ sse' = [sse EXCEPT ![c].pc = "closed"]
    /\ UNCHANGED <<others, variant, phase, regIdx, tools_registry, req, redis_client,
                   tool_usage, listing, session>>

\* a listing that takes the entries out of the registry as it reads them
ListToolsDraining ==
    /\ phase = "serving"
    /\ variant \in FastApiVariants
    /\ listing.state # "done"
    /\ listing' = list_tools(tools_registry)
    /\ tools_registry' = << >>
    /\ UNCHANGED <<others, variant, phase, regIdx, req, redis_client, tool_usage, sse,
                   session>>

\* GET /mcp/tools
ListTools ==
    /\ phase = "serving"
    /\ variant \in FastApiVariants
    /\ listing.state # "done"
    /\ listing' = list_tools(tools_registry)
    /\ UNCHANGED <<others, variant, phase, regIdx, tools_registry, req, redis_client,
                   tool_usage, sse, session>>

\* the list is written to the client, who keeps it
ListDeliver ==
    /\ listing.state = "done"
    /\ listing' = [listing EXCEPT !.state = "sent"]
    /\ UNCHANGED <<others, variant, phase, regIdx, tools_registry, req, redis_client,
                   tool_usage, sse, session>>

Next ==
    \/ Register
    \/ StartServing
    \/ \E r \in Requests : Receive(r)
    \/ \E r \in Requests : Dispatch(r)
    \/ \E r \in Requests : HandlerReturn(r)
    \/ \E r \in Requests : HandlerContinue(r)
    \/ \E r \in Requests : HandlerRaise(r)
    \/ \E r \in Requests : AioDispatch(r)
    \/ \E r \in Requests : AioReturn(r)
    \/ \E r \in Requests : StdioDispatch(r)
    \/ \E r \in Requests : StdioReturn(r)
    \/ \E r \in Requests : Deliver(r)

\* the dispatch endpoint under two requests that are served together
Spec == Init /\ [][Next]_vars

\* all the endpoints of a server, one request to each at a time
ServerNext ==
    \/ Register
    \/ StartServing
    \/ Receive("r1")
    \/ Dispatch("r1")
    \/ HandlerReturn("r1")
    \/ HandlerContinue("r1")
    \/ HandlerRaise("r1")
    \/ AioDispatch("r1")
    \/ AioReturn("r1")
    \/ StdioDispatch("r1")
    \/ StdioReturn("r1")
    \/ Deliver("r1")
    \/ ListTools
    \/ ListDeliver
    \/ SseConnect("c1")
    \/ SseYield("c1")
    \/ SsePing("c1")
    \/ SseDisconnect("c1")

ServerSpec == Init /\ [][ServerNext]_vars

\* the event streams of the clients connected to /sse
SseNext ==
    \/ Register
    \/ StartServing
    \/ \E c \in Conns : SseConnect(c)
    \/ \E c \in Conns : SseYield(c)
    \/ \E c \in Conns : SsePing(c)
    \/ \E c \in Conns : SseDisconnect(c)

SseSpec == Init /\ [][SseNext]_vars

(***************************************************************************)
(* Properties                                                              *)
(***************************************************************************)
Done(r) == req[r].pc = "done"

\* the field under which the server documents the tool name
CanonicalField(v) == IF v \in {"aio", "stdio"} THEN "name" ELSE "tool"

\* the names the server can dispatch to
Registered(v, reg) ==
    IF v \in {"aio", "stdio"} THEN AioTools ELSE RegistryNames(reg)

\* r is a JSON request that names a tool under field f
NamesTool(r, f) ==
    /\ req[r].body.ctype = "json"
    /\ req[r].body.shape = "object"
    /\ req[r].body.field = f

\* r is a JSON request for a name that is not registered
AsksUnknownTool(r) ==
    /\ NamesTool(r, CanonicalField(variant))
    /\ req[r].body.value \notin Registered(variant, tools_registry)

\* the response is the error envelope {status: "error", tool, error}
IsErrorEnvelope(resp) ==
    /\ resp.shape = "envelope"
    /\ resp.status = "error"
    /\ resp.result = ABSENT
    /\ resp.error # NoError

\* C1: a dispatch request for a name that is not registered is answered
\* with the error envelope that carries the requested name and a message
\* saying that the tool was not found; it is never left unhandled and never
\* answered with a success-shaped response.
C1_UnknownToolIsErrorEnvelope ==
    \A r \in Requests :
        (Done(r) /\ AsksUnknownTool(r)) =>
            /\ IsErrorEnvelope(req[r].resp)
            /\ req[r].resp.tool = req[r].body.value
            /\ req[r].resp.error.text = "Tool not found"
            /\ req[r].resp.error.arg = req[r].body.value

\* the handler of a registered tool ran and raised
HandlerRaised(r) == req[r].bodyRuns > 0 /\ req[r].exc # NoExc

\* C2: when the handler of a registered tool raises, also because its
\* remote call failed, the response is {status: "error", tool: <name>,
\* error: <non-empty string>} and the exception does not leave the endpoint.
C2_HandlerFailureIsErrorEnvelope ==
    \A r \in Requests :
        (Done(r) /\ HandlerRaised(r)) =>
            /\ IsErrorEnvelope(req[r].resp)
            /\ req[r].resp.tool = req[r].body.value
            /\ ~IsEmptyStr(req[r].resp.error)

\* the handler of a registered tool returned a value
HandlerReturned(r) ==
    variant \in FastApiVariants /\ req[r].returned # ABSENT

\* C3: when the handler of a registered tool returns v, the response is
\* exactly {status: "success", tool: <the requested name>, result: v}.
C3_SuccessEnvelopeRelaysResult ==
    \A r \in Requests :
        (Done(r) /\ HandlerReturned(r)) =>
            req[r].resp =
                [shape |-> "envelope", http |-> 200, status |-> "success",
                 tool |-> req[r].body.value, result |-> req[r].returned,
                 error |-> NoError, detail |-> ABSENT]

C3_Witness ==
    \E r \in Requests :
        /\ Done(r)
        /\ HandlerReturned(r)
        /\ req[r].body.value = "create_project"
        /\ req[r].returned = "hello"

\* C4: whatever the body of a POST to the dispatch endpoint is, no
\* exception leaves the endpoint: the response is never a raw 500.
C4_NoUnhandledException ==
    \A r \in Requests : Done(r) => req[r].resp.shape # "unhandled"

\* r got past the lookup: its name is one the server dispatches to
ResolvedToTool(r) ==
    /\ req[r].pc \in {"call", "done"}
    /\ IF variant = "aio" THEN req[r].tool_name \in AioTools
       ELSE IF variant = "stdio"
       THEN req[r].tool_name \in AioTools /\ req[r].bodyRuns > 0
       ELSE req[r].def # NoDef

\* C5: a dispatch request that resolves to a registered tool calls the
\* handler of that tool once: the call is not repeated, not even after the
\* handler has failed, and the body of the handler runs at most once.
C5_OneInvocationPerRequest ==
    \A r \in Requests :
        /\ req[r].invocations <= 1
        /\ req[r].bodyRuns <= 1
        /\ ResolvedToTool(r) => req[r].invocations = 1

C5_Witness ==
    \E r \in Requests :
        /\ Done(r)
        /\ ResolvedToTool(r)
        /\ req[r].exc = ReadTimeout
        /\ req[r].invocations = 1

\* C6: a registration under a name that the registry already holds is
\* refused: the descriptor of a registered name is never replaced.
C6_DuplicateRegistrationRefused ==
    [][\A n \in RegistryNames(tools_registry) :
          /\ n \in RegistryNames(tools_registry')
          /\ Lookup(tools_registry', n) = Lookup(tools_registry, n)]_vars

\* C7: when dispatch requests interleave at their suspension points, the
\* response of each carries the tool name that request asked for and the
\* result or the error of its own handler.
C7_ResponsesAreIsolated ==
    \A r \in Requests :
        (Done(r) /\ variant \in FastApiVariants
         /\ req[r].resp.shape = "envelope") =>
            /\ req[r].resp.status = "success" =>
                 /\ req[r].resp.tool = req[r].body.value
                 /\ req[r].resp.result = req[r].returned
            /\ req[r].resp.status = "error" =>
                 /\ req[r].resp.tool \in {req[r].body.value, NONE, "unknown"}
                 /\ req[r].bodyRuns = 1 => req[r].resp.tool = req[r].body.value
                 /\ req[r].resp.error = Str(req[r].exc)
                 /\ req[r].returned = ABSENT

\* two requests for different tools were in flight together and both have
\* their responses, one a success and one an error
C7_Witness ==
    /\ Done("r1") /\ Done("r2")
    /\ req["r1"].resp.status = "success"
    /\ req["r2"].resp.status = "error"
    /\ req["r2"].bodyRuns = 1
    /\ req["r1"].body.value # req["r2"].body.value
    /\ req["r1"].returned = "world"

\* r is a JSON object without tool, function and name
CarriesNoToolName(r) ==
    /\ req[r].body.ctype = "json"
    /\ req[r].body.shape = "object"
    /\ req[r].body.field = ABSENT

\* C8: a dispatch request without a tool name is answered with an error
\* that says that the tool name is missing, which is not the error of an
\* unknown tool, and the error does not leave the endpoint unhandled.
C8_MissingToolNameIsClassified ==
    \A r \in Requests :
        (Done(r) /\ variant \in FastApiVariants /\ CarriesNoToolName(r)) =>
            /\ req[r].resp.shape \in {"envelope", "http_exception"}
            /\ req[r].resp.error.text = "No tool name provided"
            /\ req[r].resp.error.text # "Tool not found"

\* the arguments of r bind but for a parameter without default they omit
OmitsRequiredArgument(r) ==
    /\ req[r].def # NoDef
    /\ req[r].parameters.mapping
    /\ req[r].parameters.keys \subseteq req[r].def.params
    /\ ~(req[r].def.required \subseteq req[r].parameters.keys)

\* the error was raised by the dispatch layer as a client error of its own
\* (an HTTPException with a 4xx status, as for an unknown tool), not left
\* to the catch-all as an exception of the interpreter
IsInvalidArguments(e) == e.type = "HTTPException" /\ e.status \in {400, 422}

\* C9: when the arguments omit a parameter that the handler declares
\* without default, the response is an error envelope classified as
\* invalid arguments, and the handler body does not run and no remote call
\* is made.
C9_MissingArgumentIsInvalidArguments ==
    \A r \in Requests :
        (Done(r) /\ variant \in FastApiVariants /\ OmitsRequiredArgument(r)) =>
            /\ IsErrorEnvelope(req[r].resp)
            /\ IsInvalidArguments(req[r].exc)
            /\ req[r].bodyRuns = 0
            /\ req[r].outbound = 0

\* C10: a JSON request that names a registered tool under tool, function
\* or name resolves to that tool, whichever of the three fields it is.
C10_NameFieldSynonyms ==
    \A r \in Requests : \A f \in NameFields :
        (Done(r) /\ variant \in FastApiVariants /\ NamesTool(r, f)
         /\ req[r].body.value \in RegistryNames(tools_registry)) =>
            /\ req[r].tool_name = req[r].body.value
            /\ req[r].def = Lookup(tools_registry, req[r].body.value)

\* the JSON document with the tool name and the parameters of a form body
JsonTwin(body) == [body EXCEPT !.ctype = "json"]

\* r is a form request that carries the tool name under tool
IsFormCall(r) ==
    /\ variant \in FormVariants
    /\ req[r].body.ctype = "form"
    /\ req[r].body.field = "tool"

PastDispatch(r) == req[r].pc \in {"call", "done"}

\* C11: a form request with a tool name and JSON-encoded parameters is
\* normalized into the same invocation request as the JSON document with
\* that name and those parameters: both resolve to the same tool with the
\* same arguments, both run the handler or neither does, and when the
\* handler does not run both get the same response.
C11_FormIsNormalizedAsJson ==
    \A r, s \in Requests :
        (IsFormCall(r) /\ PastDispatch(r) /\ PastDispatch(s)
         /\ req[s].body = JsonTwin(req[r].body)) =>
            /\ req[r].tool_name = req[s].tool_name
            /\ req[r].parameters = req[s].parameters
            /\ req[r].def = req[s].def
            /\ req[r].bodyRuns = req[s].bodyRuns
            /\ (Done(r) /\ Done(s) /\ req[r].bodyRuns = 0) =>
                   req[r].resp = req[s].resp

\* C12: the list that GET /mcp/tools returns has as many entries as
\* mcp_tool was applied at startup, and total is that number.
C12_ListCountsRegistrations ==
    listing.state = "done" =>
        /\ Len(listing.tools) = regIdx
        /\ listing.total = regIdx

\* the servers that record the usage of a tool in the store
TelemetryVariants == {"aio", "stdio"}

\* C13: a failure to record the usage of a tool does not change the
\* response of the call: a request whose telemetry failed gets the response
\* that a request with the same body and the same answer of the remote API
\* gets when its telemetry works.
C13_TelemetryFailureKeepsResponse ==
    \A r, s \in Requests :
        (variant \in TelemetryVariants /\ Done(r) /\ Done(s)
         /\ req[r].body = req[s].body
         /\ req[r].telemetry = "ok" /\ req[s].telemetry = "failed"
         /\ req[s].answer \in {NoAnswer, req[r].answer}) =>
            req[s].resp = req[r].resp

\* the remote API answered the request of r with a 4xx or 5xx status
UpstreamFailed(r) ==
    /\ req[r].answer.kind = "response"
    /\ req[r].answer.status >= 400

\* C14: when the remote API answers with a 4xx or 5xx status, the function
\* of the tool ends with an upstream error that carries that status and the
\* body of the answer; it does not return a value, and the response of the
\* dispatch is an error envelope.
C14_UpstreamErrorIsRaised ==
    \A r \in Requests :
        (Done(r) /\ UpstreamFailed(r)) =>
            /\ req[r].exc.status = req[r].answer.status
            /\ req[r].exc.text = req[r].answer.body
            /\ req[r].returned = ABSENT
            /\ IsErrorEnvelope(req[r].resp)

\* the function that ran for r is an adapter of a remote API
RanAdapter(r) ==
    /\ PastDispatch(r)
    /\ req[r].bodyRuns = 1
    /\ req[r].def.remote \/ variant \in {"aio", "stdio"}

\* C15: an adapter function sends one HTTP request per invocation, whatever
\* the answer to it is: never a second one, and one as soon as it runs
\* (unless it failed before its request, on the store).
C15_OneOutboundRequest ==
    \A r \in Requests :
        /\ req[r].outbound <= 1
        /\ (RanAdapter(r) /\ req[r].exc # RedisConnectionError) =>
               req[r].outbound = 1

\* the request of r to the remote API got no answer: it timed out, or no
\* connection could be made
TransportFailed(r) == req[r].answer.kind \in {"timeout", "refused"}

\* the exceptions of the HTTP client for a request without an answer
TransportErrors == {"ConnectError", "ReadTimeout"}

\* C16: a dispatch request whose remote call timed out or could not
\* connect gets its response, and the response is an error envelope whose
\* error is the transport error of the call and says so in its message.
C16_TransportErrorIsClassified ==
    \A r \in Requests :
        (Done(r) /\ TransportFailed(r)) =>
            /\ IsErrorEnvelope(req[r].resp)
            /\ req[r].exc.type \in TransportErrors
            /\ req[r].resp.error = Str(req[r].exc)
            /\ ~IsEmptyStr(req[r].resp.error)

\* the names that the tools events of a stream list, in order
RECURSIVE ListedNames(_)
ListedNames(events) ==
    IF events = << >> THEN << >>
    ELSE (IF Head(events).type = "tools" THEN Head(events).names ELSE << >>)
         \o ListedNames(Tail(events))

\* C17: the events of a connection to /sse come in this order: first one
\* connection event, then one or more tools events, then only ping events;
\* when the first ping is sent the tools events have listed the whole
\* registry.
C17_SseEventOrder ==
    \A c \in Conns :
        LET ev == sse[c].events
        IN  /\ \A i \in 1..Len(ev) :
                  /\ ev[i].type \in {"connection", "tools", "ping"}
                  /\ ev[i].type = "connection" <=> i = 1
                  /\ ev[i].type = "ping" =>
                        /\ i > 2
                        /\ \A j \in i..Len(ev) : ev[j].type = "ping"
            /\ Pings(ev) > 0 =>
                  ListedNames(ev) =
                      [i \in 1..Len(tools_registry) |-> tools_registry[i].name]

(***************************************************************************)
(* POST /execute of the droplet executor                                   *)
(***************************************************************************)
\* a caller sends a command: the token query parameter is left out, the
\* right one, another one or empty; request.cwd is left out, a directory or
\* a path that does not exist
ExecReceive(e) ==
    /\ exec[e].pc = "idle"
    /\ \E t \in {NONE, API_TOKEN, "guess", ""}, ok \in BOOLEAN,
          d \in {NONE, "/srv", "/missing"} :
          exec' = [exec EXCEPT ![e] =
                     [IdleExec EXCEPT !.pc = "received", !.token = t,
                                      !.valid = ok, !.cwd = d]]
    /\ UNCHANGED <<serverVars, stream, valkey, fs, conn, auth, mw>>

\* a check that lets a request without a token pass
TokenGiven(token) == token = NONE \/ token = API_TOKEN

\* if token != API_TOKEN: raise HTTPException(status_code=401, ...)
TokenAccepted(token) == token = API_TOKEN

\* FastAPI validates the body, then execute_command runs up to the await of
\* process.communicate(): the token check, create_subprocess_shell (which
\* raises for a cwd that does not exist)
execute_command(e) ==
    /\ exec[e].pc = "received"
    /\ exec' = [exec EXCEPT ![e] =
          IF ~exec[e].valid
          THEN [@ EXCEPT !.pc = "done", !.resp = ExecResp(422, 0, ABSENT)]
          ELSE IF ~TokenAccepted(exec[e].token)
          THEN [@ EXCEPT !.pc = "done", !.resp = ExecResp(401, 0, ABSENT)]
          ELSE IF exec[e].cwd = "/missing"
          THEN [@ EXCEPT !.pc = "done",
                         !.resp = CommandResponse("No such file or directory", -1)]
          ELSE [@ EXCEPT !.pc = "communicate", !.process = "running"]]
    /\ UNCHANGED <<serverVars, stream, valkey, fs, conn, auth, mw>>

\* process.communicate() returns: the command has ended
ExecFinish(e) ==
    /\ exec[e].pc = "communicate"
    /\ \E rc \in {0, 1} :
          exec' = [exec EXCEPT ![e] =
                     [@ EXCEPT !.pc = "done", !.process = "exited",
                               !.resp = CommandResponse("", rc)]]
    /\ UNCHANGED <<serverVars, stream, valkey, fs, conn, auth, mw>>

\* asyncio.TimeoutError: process.kill() and the timed-out response
ExecTimeout(e) ==
    /\ exec[e].pc = "communicate"
    /\ exec' = [exec EXCEPT ![e] =
                  [@ EXCEPT !.pc = "done", !.process = "killed",
                            !.resp = CommandResponse("Command timed out", -1)]]
    /\ UNCHANGED <<serverVars, stream, valkey, fs, conn, auth, mw>>

ExecNext ==
    \/ \E e \in Callers : ExecReceive(e)
    \/ \E e \in Callers : execute_command(e)
    \/ \E e \in Callers : ExecFinish(e)
    \/ \E e \in Callers : ExecTimeout(e)

\* the executor is a process of its own
ExecInit == Init /\ variant = "main"

ExecSpec == ExecInit /\ [][ExecNext]_vars

(***************************************************************************)
(* AuthHandler and auth_middleware                                         *)
(***************************************************************************)
\* r.setex(key, ttl, json.dumps({"full_token": encoded_jwt, ...}))
setex(store, key, until, token) ==
    [store EXCEPT ![key] = [full_token |-> token, until |-> until]]

\* AuthHandler.create_access_token(data, expires_delta)
create_access_token(data, life) ==
    /\ Cardinality(auth.issued) < MaxIssued
    /\ LET encoded_jwt == Jwt(data, auth.clock, auth.clock + life, TRUE)
       IN  auth' = [auth EXCEPT
                      !.store = setex(@, TokenKey(encoded_jwt),
                                      auth.clock + life, encoded_jwt),
                      !.issued = @ \cup {encoded_jwt}]
    /\ UNCHANGED <<serverVars, stream, valkey, fs, conn, exec, mw>>

\* AuthHandler.generate_client_token(client_id): a token of 30 days and the
\* entry of the client in ai-hub:clients
generate_client_token(client_id) ==
    /\ Cardinality(auth.issued) < MaxIssued
    /\ LET token == Jwt(client_id, auth.clock, auth.clock + LongLife, TRUE)
       IN  auth' = [auth EXCEPT
                      !.store = setex(@, TokenKey(token),
                                      auth.clock + LongLife, token),
                      !.issued = @ \cup {token},
                      !.clients = @ \cup {client_id}]
    /\ UNCHANGED <<serverVars, stream, valkey, fs, conn, exec, mw>>

\* AuthHandler.revoke_token(token): r.delete(f"ai-hub:token:{token[:20]}")
revoke_token(token) ==
    /\ token \in auth.issued \cup {ForgedToken}
    /\ token \notin auth.revoked
    /\ auth' = [auth EXCEPT !.store = [@ EXCEPT ![TokenKey(token)] = NoRecord],
                            !.revoked = @ \cup {token}]
    /\ UNCHANGED <<serverVars, stream, valkey, fs, conn, exec, mw>>

\* a second of datetime.utcnow() passes
Tick ==
    /\ auth.clock < MaxClock
    /\ auth' = [auth EXCEPT !.clock = @ + 1]
    /\ UNCHANGED <<serverVars, stream, valkey, fs, conn, exec, mw>>

\* a request reaches the wrapped handler
MwReceive(m) ==
    /\ mw[m].pc = "idle"
    /\ \E h \in {Header("absent", ForgedToken), Header("empty", ForgedToken),
                  Header("basic", ForgedToken)}
                     \cup {Header("bearer", t) : t \in AllTokens},
          a \in {"127.0.0.1", "::1", "10.0.0.7"} :
          /\ h.kind = "bearer" => h.token \in auth.issued \cup {ForgedToken}
          /\ mw' = [mw EXCEPT ![m] =
                      [IdleMw EXCEPT !.pc = "received", !.header = h,
                                     !.remote = a]]
    /\ UNCHANGED <<serverVars, stream, valkey, fs, conn, exec, auth>>

\* a wrapper that lets every request without a header through
authenticated_handler_any_host(m) ==
    /\ mw[m].pc = "received"
    /\ LET auth_header == mw[m].header
           client_data == validate_request(auth_header, auth.store, auth.clock)
       IN  mw' = [mw EXCEPT ![m] =
             IF Falsy(auth_header)
             THEN [@ EXCEPT !.pc = "done", !.invoked = TRUE,
                            !.result = "handler result"]
             ELSE IF ~client_data.some
             THEN [@ EXCEPT !.pc = "done",
                            !.result = "error: Invalid authentication"]
             ELSE IF ~has_client_id(client_data.data)
             THEN [@ EXCEPT !.pc = "done", !.accepted = TRUE,
                            !.result = "raised KeyError"]
             ELSE [@ EXCEPT !.pc = "done", !.accepted = TRUE,
                            !.invoked = TRUE, !.result = "handler result"]]
    /\ UNCHANGED <<serverVars, stream, valkey, fs, conn, exec, auth>>

\* authenticated_handler(request)
authenticated_handler(m) ==
    /\ mw[m].pc = "received"
    /\ LET auth_header == mw[m].header
           client_data == validate_request(auth_header, auth.store, auth.clock)
       IN  mw' = [mw EXCEPT ![m] =
             IF Falsy(auth_header)
             THEN IF IsLocal(mw[m].remote)
                  THEN [@ EXCEPT !.pc = "done", !.invoked = TRUE,
                                 !.result = "handler result"]
                  ELSE [@ EXCEPT !.pc = "done",
                                 !.result = "error: Authentication required"]
             ELSE IF ~client_data.some
             THEN [@ EXCEPT !.pc = "done",
                            !.result = "error: Invalid authentication"]
             ELSE IF ~has_client_id(client_data.data)
             THEN [@ EXCEPT !.pc = "done", !.accepted = TRUE,
                            !.result = "raised KeyError"]
             ELSE [@ EXCEPT !.pc = "done", !.accepted = TRUE,
                            !.invoked = TRUE, !.result = "handler result"]]
    /\ UNCHANGED <<serverVars, stream, valkey, fs, conn, exec, auth>>

\* the response is sent
MwDone(m) ==
    /\ mw[m].pc = "done"
    /\ mw' = [mw EXCEPT ![m] = IdleMw]
    /\ UNCHANGED <<serverVars, stream, valkey, fs, conn, exec, auth>>

AuthNext ==
    \/ \E d \in TokenData, l \in {ShortLife, LongLife} :
          create_access_token(d, l)
    \/ \E c \in {d \in TokenData : has_client_id(d)} : generate_client_token(c)
    \/ \E t \in AllTokens : revoke_token(t)
    \/ Tick
    \/ \E m \in MwCalls : MwReceive(m)
    \/ \E m \in MwCalls : authenticated_handler(m)
    \/ \E m \in MwCalls : MwDone(m)

\* the process that holds the AuthHandler
AuthInit == Init /\ variant = "stdio"

AuthSpec == AuthInit /\ [][AuthNext]_vars

(***************************************************************************)
(* r = await get_redis(); await r.setex(...)                               *)
(***************************************************************************)
\* get_redis up to its return or to the await of redis.from_url: a client
\* that exists is returned; otherwise a client is made, and the await of it
\* either completes at once (the assignment and the return follow) or
\* gives the event loop to another task
get_redis(t, suspends) ==
    /\ conn.task[t].pc = "idle"
    /\ IF conn.redis_client # 0
       THEN conn' = [conn EXCEPT !.task[t].pc = "setex",
                                 !.task[t].r = conn.redis_client]
       ELSE LET client == conn.created + 1
            IN  IF suspends
                THEN conn' = [conn EXCEPT !.created = client,
                                          !.task[t].pc = "from_url",
                                          !.task[t].made = client]
                ELSE conn' = [conn EXCEPT !.created = client,
                                          !.redis_client = client,
                                          !.task[t].pc = "setex",
                                          !.task[t].made = client,
                                          !.task[t].r = client]
    /\ UNCHANGED <<serverVars, stream, valkey, fs, exec, auth, mw>>

\* the await of redis.from_url is over: redis_client = <the client>;
\* return redis_client
get_redis_resume(t) ==
    /\ conn.task[t].pc = "from_url"
    /\ conn' = [conn EXCEPT !.redis_client = conn.task[t].made,
                            !.task[t].pc = "setex",
                            !.task[t].r = conn.task[t].made]
    /\ UNCHANGED <<serverVars, stream, valkey, fs, exec, auth, mw>>

\* await r.setex(...): the log entry of handle_call_tool is sent through r
TaskSetex(t) ==
    /\ conn.task[t].pc = "setex"
    /\ conn' = [conn EXCEPT !.task[t].pc = "done", !.task[t].logged = TRUE]
    /\ UNCHANGED <<serverVars, stream, valkey, fs, exec, auth, mw>>

\* the tool call is over and the task takes the next one
TaskNext(t) ==
    /\ conn.task[t].pc = "done"
    /\ conn' = [conn EXCEPT !.task[t].pc = "idle", !.task[t].logged = FALSE]
    /\ UNCHANGED <<serverVars, stream, valkey, fs, exec, auth, mw>>

ConnNext ==
    \/ \E t \in Tasks, suspends \in BOOLEAN : get_redis(t, suspends)
    \/ \E t \in Tasks : get_redis_resume(t)
    \/ \E t \in Tasks : TaskSetex(t)
    \/ \E t \in Tasks : TaskNext(t)

\* the stdio server and its tool calls
ConnInit == Init /\ variant = "stdio"

ConnSpec == ConnInit /\ [][ConnNext]_vars

(***************************************************************************)
(* write_code, from one await to the next                                  *)
(***************************************************************************)
\* create_project: project.json is written with "files": []
create_project ==
    /\ fs.project_json.state = "absent"
    /\ fs' = [fs EXCEPT !.project_json = ProjectJson("json", << >>)]
    /\ UNCHANGED <<serverVars, stream, valkey, exec, auth, mw, conn>>

\* write_code(project, filename, ...): the code file is written; without a
\* project.json the call returns here
write_code(w, filename) ==
    /\ fs.writer[w].pc = "idle"
    /\ fs' = [fs EXCEPT !.writer[w] =
                [IdleWriter EXCEPT
                   !.pc = IF fs.project_json.state = "absent" THEN "done"
                          ELSE "read",
                   !.filename = filename]]
    /\ UNCHANGED <<serverVars, stream, valkey, exec, auth, mw, conn>>

\* metadata = json.loads(await f.read()): an empty file raises
\* JSONDecodeError and the call fails
WriteRead(w) ==
    /\ fs.writer[w].pc = "read"
    /\ fs' = IF fs.project_json.state = "json"
             THEN [fs EXCEPT !.writer[w].pc = "open",
                             !.writer[w].metadata =
                                 UpdateFiles(fs.project_json.files,
                                             fs.writer[w].filename)]
             ELSE [fs EXCEPT !.writer[w].pc = "failed"]
    /\ UNCHANGED <<serverVars, stream, valkey, exec, auth, mw, conn>>

\* aiofiles.open(metadata_path, 'w'): the file is truncated
WriteOpen(w) ==
    /\ fs.writer[w].pc = "open"
    /\ fs' = [fs EXCEPT !.writer[w].pc = "write",
                        !.project_json = ProjectJson("empty", << >>)]
    /\ UNCHANGED <<serverVars, stream, valkey, exec, auth, mw, conn>>

\* await f.write(json.dumps(metadata, indent=2)) and the return
WriteFlush(w) ==
    /\ fs.writer[w].pc = "write"
    /\ fs' = [fs EXCEPT !.writer[w].pc = "done",
                        !.project_json =
                            ProjectJson("json", fs.writer[w].metadata),
                        !.completed = @ \cup {fs.writer[w].filename}]
    /\ UNCHANGED <<serverVars, stream, valkey, exec, auth, mw, conn>>

\* the call is answered
WriteNext(w) ==
    /\ fs.writer[w].pc \in {"done", "failed"}
    /\ fs' = [fs EXCEPT !.writer[w] = IdleWriter]
    /\ UNCHANGED <<serverVars, stream, valkey, exec, auth, mw, conn>>

FsNext ==
    \/ create_project
    \/ \E w \in Writers, f \in {"a.py", "b.py", "c.py"} : write_code(w, f)
    \/ \E w \in Writers : WriteRead(w)
    \/ \E w \in Writers : WriteOpen(w)
    \/ \E w \in Writers : WriteFlush(w)
    \/ \E w \in Writers : WriteNext(w)

FsInit == Init /\ variant = "main"

FsSpec == FsInit /\ [][FsNext]_vars

(***************************************************************************)
(* get_redis_client and its caller health_check                            *)
(***************************************************************************)
\* get_redis_client(), called by mcp_call_tool; the record keeps what the
\* call met and did: the cached client before, the strategies tried, the
\* client returned
get_redis_client(pings, test_ops) ==
    /\ LET client == IF valkey.redis_client # 0 THEN valkey.redis_client
                     ELSE FirstSuccess(pings, test_ops)
       IN  valkey' = [redis_client |-> client, op |-> "get_redis_client",
                      pings |-> pings, test_ops |-> test_ops,
                      before |-> valkey.redis_client,
                      tried |-> IF valkey.redis_client # 0 THEN {}
                                ELSE IF client = 0 THEN 1..5 ELSE 1..client,
                      returned |-> client, redis_status |-> "none"]
    /\ UNCHANGED <<serverVars, stream, exec, auth, mw, conn, fs>>

\* health_check: redis = get_redis_client(), then redis.ping() and
\* redis.info() when there is a client; answers is whether they succeed
health_check(pings, test_ops, answers) ==
    /\ LET client == IF valkey.redis_client # 0 THEN valkey.redis_client
                     ELSE FirstSuccess(pings, test_ops)
       IN  valkey' = [redis_client |-> client, op |-> "health_check",
                      pings |-> pings, test_ops |-> test_ops,
                      before |-> valkey.redis_client,
                      tried |-> IF valkey.redis_client # 0 THEN {}
                                ELSE IF client = 0 THEN 1..5 ELSE 1..client,
                      returned |-> client,
                      redis_status |-> IF client = 0 THEN "disconnected"
                                       ELSE IF answers THEN "connected"
                                       ELSE "error"]
    /\ UNCHANGED <<serverVars, stream, exec, auth, mw, conn, fs>>

ValkeyNext ==
    \/ \E pings \in SUBSET (1..5), test_ops \in BOOLEAN :
          get_redis_client(pings, test_ops)
    \/ \E pings \in SUBSET (1..5), test_ops, answers \in BOOLEAN :
          health_check(pings, test_ops, answers)

ValkeyInit == Init /\ variant = "aio"

ValkeySpec == ValkeyInit /\ [][ValkeyNext]_vars

(***************************************************************************)
(* event_generator of revolutionary_complete.py with a large registry      *)
(***************************************************************************)
\* one data event of the stream, with the fields the chunk loop and the
\* completion message give it
StreamEvent(type, tools, chunk, total_chunks, total) ==
    [type |-> type, tools |-> tools, chunk |-> chunk,
     total_chunks |-> total_chunks, total |-> total]

\* GET /sse on a server whose registry holds n tools (a tool stands for its
\* place in tools_registry.items()): the connection message is sent and
\* tools_data is built
StreamOpen(n) ==
    /\ stream.pc # "open"
    /\ stream' = [pc |-> "open", tools_data |-> [i \in 1..n |-> i],
                  events |-> << StreamEvent("connection", << >>, 0, 0, 0) >>]
    /\ UNCHANGED <<serverVars, exec, auth, mw, conn, fs, valkey>>

\* the next round of the chunk loop, or the completion message after it
StreamYield ==
    /\ stream.pc = "open"
    /\ LET n == Len(stream.tools_data)
           k == Len(stream.events)
       IN  stream' =
             IF k <= NumChunks(n)
             THEN [stream EXCEPT !.events =
                     Append(@, StreamEvent("tools", Chunk(stream.tools_data, k),
                                           k, NumChunks(n), n))]
             ELSE [stream EXCEPT !.pc = "complete", !.events =
                     Append(@, StreamEvent("tools_complete", << >>, 0, 0, n))]
    /\ UNCHANGED <<serverVars, exec, auth, mw, conn, fs, valkey>>

StreamNext ==
    \/ \E n \in 0..MaxTools : StreamOpen(n)
    \/ StreamYield

StreamInit == Init /\ variant = "rev"

StreamSpec == StreamInit /\ [][StreamNext]_vars

\* the tool calls of the aiohttp server, each request answered once and its
\* record kept
TelemetryNext ==
    \/ Register
    \/ StartServing
    \/ \E r \in Requests : Receive(r)
    \/ \E r \in Requests : AioDispatch(r)
    \/ \E r \in Requests : AioReturn(r)

TelemetrySpec == Init /\ [][TelemetryNext]_vars

\* a request of some kind is being handled
Handling ==
    \/ \E r \in Requests : req[r].pc # "idle"
    \/ listing.state = "done"
    \/ \E c \in Conns : sse[c].pc = "open"

\* C18: no dispatch, list or SSE request is handled while a registration of
\* the process is pending: when a request is handled every @mcp_tool of the
\* module has run and the registry holds every name the module defines.
C18_ServeAfterRegistration ==
    Handling =>
        /\ phase = "serving"
        /\ regIdx = Len(ModuleDefs(variant))
        /\ \A i \in 1..Len(ModuleDefs(variant)) :
              ModuleDefs(variant)[i].name \in RegistryNames(tools_registry)

\* a dispatch request waits for its handler, a list is being written and a
\* stream is open, on a server that registered two tools
C18_Witness ==
    /\ Len(tools_registry) = 2
    /\ req["r1"].pc = "call"
    /\ listing.state = "done"
    /\ sse["c1"].pc = "open"

ClientsAlive ==
    Cardinality({r \in Requests : req[r].pc = "call" /\ req[r].client = "own"})
        + (IF session = NONE THEN 0 ELSE 1)

\* C20: at most one outbound HTTP client exists in the process; it is made
\* by the first remote call and reused by every later one, and no remote
\* call makes a client of its own.
C20_OneHttpClientPerProcess ==
    /\ ClientsAlive <= 1
    /\ \A r \in Requests : req[r].client # "own"

\* the calls whose hincrby for name succeeded
Logged(name) ==
    {r \in Requests : req[r].telemetry = "ok" /\ req[r].tool_name = name}

\* C21: the usage counter of a tool name has gone up by one for every call
\* of that name that reached the reachable store, however the calls
\* interleave: N such calls leave it N higher, no update is lost.
C21_NoLostUsageUpdate ==
    variant = "aio" =>
        \A n \in UsageNames : tool_usage[n] = Cardinality(Logged(n))

\* two calls of chats_list are in flight together, both counted
C21_Witness ==
    /\ variant = "aio"
    /\ \A r \in Requests : req[r].pc = "call" /\ req[r].telemetry = "ok"
                            /\ req[r].tool_name = "chats_list"
    /\ tool_usage["chats_list"] = 2

\* C22: execute_command starts a subprocess only for a request whose token
\* equals API_TOKEN; a call with any other token, or none, is answered 401
\* and no process is started for it.
C22_ExecuteNeedsToken ==
    \A e \in Callers :
        /\ exec[e].process # "none" => exec[e].token = API_TOKEN
        /\ (exec[e].pc = "done" /\ exec[e].valid
               /\ exec[e].token # API_TOKEN)
              => exec[e].resp.http = 401 /\ exec[e].process = "none"

\* one caller without a token was answered 401 while the command of
\* another, who sent the token, is running
C22_Witness ==
    /\ exec["e1"].token = NONE /\ exec["e1"].pc = "done"
    /\ exec["e1"].resp.http = 401
    /\ exec["e2"].token = API_TOKEN /\ exec["e2"].process = "running"

\* the request carries a bearer token that verify_token accepts now
BearerAccepted(m) ==
    /\ mw[m].header.kind = "bearer"
    /\ verify_token(mw[m].header.token, auth.store, auth.clock).some

\* authenticated_handler answers request m in this step
MwAnswers(m) == mw[m].pc = "received" /\ mw'[m].pc = "done"

MwErrors == {"error: Authentication required", "error: Invalid authentication"}

Verify(token) == verify_token(token, auth.store, auth.clock)

\* this step stores a token: create_access_token or generate_client_token
IssueStep ==
    /\ auth'.store # auth.store
    /\ auth'.revoked = auth.revoked
    /\ auth'.clock = auth.clock

\* C24: issuing a token invalidates no token issued earlier: a token that
\* verify_token accepted before create_access_token or
\* generate_client_token ran (issued, not expired, not revoked) is
\* accepted after it, with the same payload.
C24_IssuingKeepsEarlierTokens ==
    [][IssueStep =>
         \A t \in auth.issued :
             Verify(t).some =>
                 verify_token(t, auth'.store, auth'.clock) = Verify(t)]_vars

\* C25: a token that revoke_token was called for is never accepted again:
\* verify_token returns None for it in every later state.
C25_RevokedStaysRevoked ==
    \A t \in auth.revoked : ~Verify(t).some

\* C26: revoke_token(t) changes the result of verify_token for no issued
\* token other than t.
C26_RevokeOnlyThatToken ==
    [][\A t \in AllTokens :
         (t \notin auth.revoked /\ auth'.revoked = auth.revoked \cup {t}) =>
             \A u \in auth.issued \ {t} :
                 verify_token(u, auth'.store, auth'.clock) = Verify(u)]_vars

NoWriteInProgress == \A w \in Writers : fs.writer[w].pc \in {"idle", "done"}

\* C28: once the write_code calls have completed, project.json lists the
\* file of every call that updated it, also when calls for different
\* filenames ran at the same time; and its files list never holds a
\* filename twice.
C28_ProjectJsonKeepsFiles ==
    fs.project_json.state = "json" =>
        LET files == fs.project_json.files
        IN  /\ \A i, j \in 1..Len(files) : files[i] = files[j] => i = j
            /\ NoWriteInProgress =>
                  \A f \in fs.completed : \E i \in 1..Len(files) : files[i] = f

\* what a call of get_redis_client did, given the strategies that count as
\* successful: with a cached client nothing is tried and that client is
\* returned; otherwise strategies 1, 2, ... are tried up to the first
\* successful one, whose client is returned and cached; when none is
\* successful all five are tried, None is returned and nothing is cached
CallFollows(successful) ==
    valkey.op # "none" =>
        /\ valkey.redis_client = valkey.returned
        /\ valkey.returned # 0 /\ valkey.before = 0
              => valkey.returned \in valkey.pings
        /\ IF valkey.before # 0
           THEN valkey.tried = {} /\ valkey.returned = valkey.before
           ELSE IF successful = {}
           THEN valkey.tried = 1..5 /\ valkey.returned = 0
           ELSE /\ valkey.returned \in successful
                /\ \A k \in successful : valkey.returned <= k
                /\ valkey.tried = 1..valkey.returned

\* C29, as stated: the strategies are tried in the order 1 to 5 up to the
\* first whose ping succeeds; the client returned and cached is one whose
\* ping succeeded; a cached client is returned without trying a strategy;
\* when all five fail None is returned and no client is cached.
C29_FirstPingWins == CallFollows(valkey.pings)

\* C29, amended: as stated, where strategy 1 succeeds only when its ping
\* and the set and get of its test key succeed, and strategies 2 to 5 when
\* their ping succeeds.
C29_FirstSuccessWins ==
    CallFollows({k \in valkey.pings : k # 1 \/ valkey.test_ops})

\* strategies 1 and 2 failed and the client of strategy 3 was cached; the
\* next call returned it without trying anything
C29_Witness ==
    /\ valkey.op = "get_redis_client"
    /\ valkey.before = 3 /\ valkey.returned = 3 /\ valkey.tried = {}
    /\ 1 \in valkey.pings

\* the places of the tools events among the events of the stream
ToolsEvents ==
    {i \in 1..Len(stream.events) : stream.events[i].type = "tools"}

\* the least c with c * 50 >= n
CeilOf50(n) == CHOOSE c \in 0..n : c * 50 >= n /\ (c = 0 \/ (c - 1) * 50 < n)

\* C30: in the chunked stream every tools event holds at most 50 tools, the
\* chunk numbers run 1, 2, ... without gap, total_chunks is
\* ceil(total_tools / 50) and total_tools the size of the registry; when
\* tools_complete has been sent it follows the last chunk, its total is the
\* size of the registry, and every tool of the registry is in exactly one
\* chunk.
C30_ChunksPartitionRegistry ==
    LET E == stream.events
        n == Len(stream.tools_data)
    IN  /\ \A i \in ToolsEvents :
              /\ E[i].chunk = Cardinality({j \in ToolsEvents : j <= i})
              /\ E[i].chunk <= E[i].total_chunks
              /\ Len(E[i].tools) <= 50
              /\ E[i].total_chunks = CeilOf50(n)
              /\ E[i].total = n
        /\ \A i \in 1..Len(E) : E[i].type = "tools_complete" =>
              /\ i = Len(E)
              /\ Cardinality(ToolsEvents) = CeilOf50(n)
              /\ \A j \in ToolsEvents : j < i
              /\ i > 1 /\ (ToolsEvents # {} => i - 1 \in ToolsEvents)
              /\ E[i].total = n
              /\ \A t \in 1..n :
                    Cardinality({p \in ToolsEvents \X (1..50) :
                                   /\ p[2] <= Len(E[p[1]].tools)
                                   /\ E[p[1]].tools[p[2]] =
                                          stream.tools_data[t]}) = 1

\* a registry of more than 100 tools was sent in three chunks and
\* tools_complete followed
C30_Witness ==
    /\ Len(stream.tools_data) > 100
    /\ stream.pc = "complete"
    /\ Cardinality(ToolsEvents) = 3
    /\ stream.events[Len(stream.events)].type = "tools_complete"

====
